---- MODULE Spec2Model ----
(***************************************************************************)
(* The polyomino packing decision procedure of day 12                      *)
(* (src/src/aoc/aoc_2025/day_12/main.py): the area estimator, the          *)
(* shape reader, the orientation generator, the placement engine, the      *)
(* memoized backtracking search and the per-query loop of part_1.          *)
(*                                                                         *)
(* A cell is a pair <<r, c>>.  A shape is a finite set of cells.  A grid   *)
(* is a function from the cells of the height x width region to BOOLEAN    *)
(* (grid[<<r, c>>] is Python's grid[r][c]).  Shape identifiers and the     *)
(* index idx are 0-based as in the source; the presents list is a TLA+     *)
(* sequence, so presents[idx] of the source is presents[idx + 1] here.     *)
(***************************************************************************)
EXTENDS Integers, Sequences, FiniteSets, TLC

\* ------------------------------------------------------------------ bounds
\* Largest region area (width * height) drawn for a query.
MaxArea == 9
\* Largest total number of presents of a query (sum of the counts vector).
MaxPresents == 3
\* Largest number of queries part_1 is run on.
MaxQueries == 2
\* The estimator on its own: largest width and height, largest count per
\* shape id, largest number of cells of a shape.
MaxEstimatorSide == 4
MaxEstimatorCount == 2
MaxShapeCells == 10
\* The placement engine on its own: largest grid area, and largest number of
\* placements marked and not yet undone.
MaxEngineArea == 6
MaxMarked == 2
\* The shape functions on their own: shapes are drawn from a square box of
\* this side and have at most one cell more than the side; translations move
\* a shape by at most MaxShift in each direction.
MaxShapeSide == 3
MaxShift == 1
\* solve_region_backtrack on its own: how many times it is called on the same
\* arguments.
MaxRuns == 2
\* The estimator's block bound on its own: largest width and height, and
\* largest count per shape id.
MaxBlockSide == 6
MaxBlockCount == 2

\* ---------------------------------------------------------------- helpers
Min(S) == CHOOSE x \in S : \A y \in S : x <= y
Max(S) == CHOOSE x \in S : \A y \in S : x >= y

RECURSIVE SumOver(_, _)
\* sum(f[i] for i in S), for a finite set S
SumOver(f, S) ==
  IF S = {} THEN 0
  ELSE LET i == CHOOSE x \in S : TRUE IN f[i] + SumOver(f, S \ {i})

\* dict.get(i, default)
Get(d, i, default) == IF i \in DOMAIN d THEN d[i] ELSE default

\* The cells of a grid of the given size.
GridCells(width, height) == (0 .. height - 1) \X (0 .. width - 1)

\* grid = [[False] * width for _ in range(height)]
EmptyGrid(width, height) == [p \in GridCells(width, height) |-> FALSE]

\* The shape's cells under the offset (row, col): (row + r, col + c).
Translate(cells, row, col) == {<<row + p[1], col + p[2]>> : p \in cells}

\* ------------------------------------------------------------ the estimator
\* The three outcomes of can_fit_by_area: Python's True, False and None.
Fits == "True"
DoesNotFit == "False"
Unknown == "None"

\* A mutant of can_fit_by_area: the sufficiency bound is tested first.
can_fit_by_area_blocks_first(width, height, present_counts, shape_sizes) ==
  LET grid_area == width * height
      total_present_cells ==
        SumOver([i \in DOMAIN present_counts |->
                   present_counts[i] * Get(shape_sizes, i, 0)],
                DOMAIN present_counts)
      total_presents == SumOver(present_counts, DOMAIN present_counts)
      max_3x3_blocks == (width \div 3) * (height \div 3)
  IN  IF total_presents <= max_3x3_blocks THEN Fits
      ELSE IF total_present_cells > grid_area THEN DoesNotFit
      ELSE Unknown

\* A mutant of can_fit_by_area: a region filled exactly counts as too small.
can_fit_by_area_strict(width, height, present_counts, shape_sizes) ==
  LET grid_area == width * height
      total_present_cells ==
        SumOver([i \in DOMAIN present_counts |->
                   present_counts[i] * Get(shape_sizes, i, 0)],
                DOMAIN present_counts)
      total_presents == SumOver(present_counts, DOMAIN present_counts)
      max_3x3_blocks == (width \div 3) * (height \div 3)
  IN  IF total_present_cells >= grid_area THEN DoesNotFit
      ELSE IF total_presents <= max_3x3_blocks THEN Fits
      ELSE Unknown

\* A mutant of can_fit_by_area: the blocks counted are 2x2.
can_fit_by_area_2x2_blocks(width, height, present_counts, shape_sizes) ==
  LET grid_area == width * height
      total_present_cells ==
        SumOver([i \in DOMAIN present_counts |->
                   present_counts[i] * Get(shape_sizes, i, 0)],
                DOMAIN present_counts)
      total_presents == SumOver(present_counts, DOMAIN present_counts)
      max_3x3_blocks == (width \div 2) * (height \div 2)
  IN  IF total_present_cells > grid_area THEN DoesNotFit
      ELSE IF total_presents <= max_3x3_blocks THEN Fits
      ELSE Unknown

\* present_counts is a function on 0 .. n-1 (a Python list), shape_sizes a
\* function on the defined shape identifiers (a Python dict).
can_fit_by_area(width, height, present_counts, shape_sizes) ==
  LET grid_area == width * height
      total_present_cells ==
        SumOver([i \in DOMAIN present_counts |->
                   present_counts[i] * Get(shape_sizes, i, 0)],
                DOMAIN present_counts)
      total_presents == SumOver(present_counts, DOMAIN present_counts)
      max_3x3_blocks == (width \div 3) * (height \div 3)
  IN  IF total_present_cells > grid_area THEN DoesNotFit
      ELSE IF total_presents <= max_3x3_blocks THEN Fits
      ELSE Unknown

\* ------------------------------------------------------- the shape reader
\* The cells a shape's lines hold: (r, c) for every "#", rows and columns
\* counted from 0.  A line is a sequence of one-character strings.
MarkedCells(lines) ==
  UNION {{<<r, c>> : c \in {k \in 0 .. Len(lines[r + 1]) - 1 :
                               lines[r + 1][k + 1] = "#"}} :
         r \in 0 .. Len(lines) - 1}

\* Extract cell coordinates from shape lines.
extract_shape_from_lines(lines) ==
  LET cells == MarkedCells(lines)
  IN  IF cells # {}
      THEN LET min_r == Min({p[1] : p \in cells})
               min_c == Min({p[2] : p \in cells})
           IN  {<<p[1] - min_r, p[2] - min_c>> : p \in cells}
      ELSE {}

\* ------------------------------------------------- the orientation generator
\* A mutant of rotate_90: the sign is lost, (r, c) -> (c, r).
rotate_90_unsigned(coords) == {<<p[2], p[1]>> : p \in coords}

\* Rotate 90 degrees clockwise: (r, c) -> (c, -r)
rotate_90(coords) == {<<p[2], -p[1]>> : p \in coords}

\* Flip horizontally: (r, c) -> (r, -c)
flip_horizontal(coords) == {<<p[1], -p[2]>> : p \in coords}

\* A mutant of normalize: the columns are left as they are.
normalize_rows_only(coords) ==
  IF coords = {} THEN {}
  ELSE LET min_r == Min({p[1] : p \in coords})
       IN  {<<p[1] - min_r, p[2]>> : p \in coords}

\* A mutant of normalize: the two minima are subtracted from the wrong
\* coordinates.
normalize_swapped_minima(coords) ==
  IF coords = {} THEN {}
  ELSE LET min_r == Min({p[1] : p \in coords})
           min_c == Min({p[2] : p \in coords})
       IN  {<<p[1] - min_c, p[2] - min_r>> : p \in coords}

\* Normalize to canonical form starting at (0, 0).
normalize(coords) ==
  IF coords = {} THEN {}
  ELSE LET min_r == Min({p[1] : p \in coords})
           min_c == Min({p[2] : p \in coords})
       IN  {<<p[1] - min_r, p[2] - min_c>> : p \in coords}

RECURSIVE Rotations(_, _)
\* The body of "for _ in range(n): orientations.add(normalize(current));
\* current = rotate_90(current)": the normalized shapes it adds.
Rotations(current, n) ==
  IF n = 0 THEN {}
  ELSE {normalize(current)} \cup Rotations(rotate_90(current), n - 1)

\* A mutant of get_all_orientations: the flipped version is not generated.
get_all_orientations_unflipped(cells) == Rotations(cells, 4)

\* The list returned is built from a Python set, so its order is the set's
\* iteration order; the model keeps the set, and a loop over it takes its
\* elements in any order.
get_all_orientations(cells) ==
  Rotations(cells, 4) \cup Rotations(flip_horizontal(cells), 4)

RECURSIVE ListOf(_)
\* [set(o) for o in orientations]: the list made of a set, each element of
\* the set once, in the order the set is iterated in.
ListOf(orientations) ==
  IF orientations = {} THEN <<>>
  ELSE LET o == CHOOSE x \in orientations : TRUE
       IN  <<o>> \o ListOf(orientations \ {o})

\* ------------------------------------------------------ the placement engine
\* A mutant of can_place: the occupancy of the grid is not looked at.
can_place_bounds_only(g, cells, row, col, width, height) ==
  \A p \in cells :
    ~(row + p[1] < 0 \/ row + p[1] >= height \/ col + p[2] < 0 \/ col + p[2] >= width)

\* A mutant of can_place: "return True" sits inside the loop, so only the
\* first cell taken is tested.
can_place_first_cell(g, cells, row, col, width, height) ==
  IF cells = {} THEN TRUE
  ELSE LET p == CHOOSE x \in cells : TRUE
           nr == row + p[1]
           nc == col + p[2]
       IN  IF nr < 0 \/ nr >= height \/ nc < 0 \/ nc >= width THEN FALSE
           ELSE IF g[<<nr, nc>>] THEN FALSE
           ELSE TRUE

RECURSIVE can_place(_, _, _, _, _, _)
\* The loop over the shape's cells, with its two early returns.
can_place(g, cells, row, col, width, height) ==
  IF cells = {} THEN TRUE
  ELSE LET p == CHOOSE x \in cells : TRUE
           nr == row + p[1]
           nc == col + p[2]
       IN  IF nr < 0 \/ nr >= height \/ nc < 0 \/ nc >= width THEN FALSE
           ELSE IF g[<<nr, nc>>] THEN FALSE
           ELSE can_place(g, cells \ {p}, row, col, width, height)

\* A mutant of place: the cells are marked whatever mark says.
place_always_marks(g, cells, row, col, mark) ==
  [p \in DOMAIN g |-> IF p \in Translate(cells, row, col) THEN TRUE ELSE g[p]]

\* grid[row + r][col + c] = mark for every cell of the shape.  The search
\* calls it only on cells can_place found inside the grid.
place(g, cells, row, col, mark) ==
  [p \in DOMAIN g |-> IF p \in Translate(cells, row, col) THEN mark ELSE g[p]]

\* ------------------------------------------------------------- the inputs
\* Shapes as the parser hands them over: normalized, non-empty cell sets.
Monomino == {<<0, 0>>}
Domino == {<<0, 0>>, <<0, 1>>}
LTromino == {<<0, 0>>, <<1, 0>>, <<1, 1>>}
Square == {<<0, 0>>, <<0, 1>>, <<1, 0>>, <<1, 1>>}
Bar == {<<0, 0>>, <<0, 1>>, <<0, 2>>, <<0, 3>>}
ShortBar == {<<0, 0>>, <<0, 1>>, <<0, 2>>}
Plus == {<<0, 1>>, <<1, 0>>, <<1, 1>>, <<1, 2>>, <<2, 1>>}
Block == (0 .. 2) \X (0 .. 2)

\* The shape tables a run is given: a dict from shape id 0 .. n-1 to cells.
ShapeTables ==
  { (0 :> Monomino), (0 :> Domino), (0 :> Square), (0 :> Bar),
    (0 :> Monomino @@ 1 :> LTromino), (0 :> LTromino @@ 1 :> Domino) }

\* Every region of at most MaxArea cells with every counts vector (one count
\* per shape id) of at most MaxPresents presents in all.
BoundedQueries(sh) ==
  { q \in [width : 1 .. MaxArea, height : 1 .. MaxArea,
           counts : [DOMAIN sh -> 0 .. MaxPresents]] :
      /\ q.width * q.height <= MaxArea
      /\ SumOver(q.counts, DOMAIN q.counts) <= MaxPresents }

\* The three fixed small cases: a 3x3 region with one 1x1 shape, a 2x2 region
\* with two 2x2 squares, a 4x4 region with four 2x2 squares.
OneCellIn3x3 == [width |-> 3, height |-> 3, counts |-> (0 :> 1)]
TwoSquaresIn2x2 == [width |-> 2, height |-> 2, counts |-> (0 :> 2)]
FourSquaresIn4x4 == [width |-> 4, height |-> 4, counts |-> (0 :> 4)]

FixedCases(sh) ==
  IF sh = (0 :> Monomino) THEN {OneCellIn3x3}
  ELSE IF sh = (0 :> Square) THEN {TwoSquaresIn2x2, FourSquaresIn4x4}
  ELSE {}

\* The queries a run over the shape table sh may hold.
Queries(sh) == BoundedQueries(sh) \cup FixedCases(sh)

\* --------------------------------------------------------------- the state
VARIABLES
  entry,             \* the function called: "part_1" or "solve_region_backtrack"
  shapes,            \* the shapes: shape id -> cells
  qi,                \* number of queries the loop of part_1 has taken
  query,             \* the query of the current iteration
  can_fit,           \* the estimator's answer for it
  count,             \* part_1's count
  all_orientations,  \* None, or the lazily built table shape id -> orientations
  grid,              \* the search's grid (NoGrid outside a search)
  memo,              \* the search's memo table: <<grid state, idx>> -> BOOLEAN
  stack,             \* the frames of backtrack that are inside the loops
  idx,               \* the argument of the call of backtrack being entered
  ret,               \* the value the last call of backtrack returned
  pc,                \* where control is
  placed,            \* history: the placements now marked on the grid
  outcomes,          \* history: the outcome of every query finished
  generated,         \* history: calls of get_all_orientations per shape id
  last_call,         \* the last call made on the placement engine or on a
                     \* shape function driven on its own, with its arguments
  before,            \* history: the grid before the first call made on the
                     \* placement engine driven on its own
  estimates,         \* history: the estimator's answer for every query taken
  visits,            \* history: for each <<grid, idx>> backtrack was entered
                     \* with in the current search, how many times it went
                     \* past the memo lookup (explored) and how many times
                     \* the lookup answered (recalled)
  result             \* the value returned by a function of the shape layer
                     \* called on its own

vars == <<entry, shapes, qi, query, can_fit, count, all_orientations, grid, memo,
          stack, idx, ret, pc, placed, outcomes, generated, last_call, before,
          estimates, visits, result>>

\* Python's None for all_orientations, and a built table t.
None == <<>>
Some(t) == <<t>>

NoGrid == <<>>
NoMemo == <<>>
NoQuery == [width |-> 0, height |-> 0, counts |-> <<>>]
NoCall == [fn |-> "none", cells |-> {}, row |-> 0, col |-> 0, mark |-> FALSE]
NoResult == <<>>
NoVisit == [explored |-> 0, recalled |-> 0]

\* The visits after one more exploration of the state, or one more answer of
\* the memo lookup for it.
Explored(state) ==
  (state :> [Get(visits, state, NoVisit) EXCEPT !.explored = @ + 1]) @@ visits
Recalled(state) ==
  (state :> [Get(visits, state, NoVisit) EXCEPT !.recalled = @ + 1]) @@ visits

\* shape_sizes = {shape_id: len(cells) for shape_id, cells in shapes.items()}
shape_sizes == [shape_id \in DOMAIN shapes |-> Cardinality(shapes[shape_id])]

RECURSIVE PresentsFrom(_, _)
\* The flat list of presents: shape_id repeated count times, in id order.
PresentsFrom(present_counts, shape_id) ==
  IF shape_id \notin DOMAIN present_counts THEN <<>>
  ELSE [k \in 1 .. present_counts[shape_id] |-> shape_id]
         \o PresentsFrom(present_counts, shape_id + 1)

presents == PresentsFrom(query.counts, 0)

\* Hashable grid state for memoization: the grid's full content.
get_grid_state(g) == g

\* A mutant of MemoKey: the key leaves the grid out.
MemoKeyIdxOnly(g, i) == <<NoGrid, i>>

\* state = (get_grid_state(), idx)
MemoKey(g, i) == <<get_grid_state(g), i>>

\* A mutant of count_empty_cells: the filled cells are counted.
count_filled_cells(g) == Cardinality({p \in DOMAIN g : g[p]})

\* Count empty cells in the grid.
count_empty_cells(g) == Cardinality({p \in DOMAIN g : ~g[p]})

\* The 4-connected neighbours of a cell.
Neighbours(p) ==
  {<<p[1] - 1, p[2]>>, <<p[1] + 1, p[2]>>, <<p[1], p[2] - 1>>, <<p[1], p[2] + 1>>}

\* A mutant of get_adjacent_positions: the neighbour below a filled cell is
\* left out.
get_adjacent_positions_three_sides(g, width, height) ==
  LET filled == {p \in DOMAIN g : g[p]}
      adjacent == {n \in GridCells(width, height) :
                     ~g[n] /\ \E p \in filled :
                                n \in Neighbours(p) \ {<<p[1] + 1, p[2]>>}}
      has_placed == filled # {}
      empty == {p \in DOMAIN g : ~g[p]}
      first == CHOOSE p \in empty : \A e \in empty :
                 p[1] < e[1] \/ (p[1] = e[1] /\ p[2] <= e[2])
  IN  IF ~has_placed /\ empty # {} THEN {first} ELSE adjacent

\* The empty in-grid neighbours of the filled cells; when no cell is filled,
\* the first empty cell in row-major order.
get_adjacent_positions(g, width, height) ==
  LET filled == {p \in DOMAIN g : g[p]}
      adjacent == {n \in GridCells(width, height) :
                     ~g[n] /\ \E p \in filled : n \in Neighbours(p)}
      has_placed == filled # {}
      empty == {p \in DOMAIN g : ~g[p]}
      first == CHOOSE p \in empty : \A e \in empty :
                 p[1] < e[1] \/ (p[1] = e[1] /\ p[2] <= e[2])
  IN  IF ~has_placed /\ empty # {} THEN {first} ELSE adjacent

Top == stack[Len(stack)]
Pop == SubSeq(stack, 1, Len(stack) - 1)
SetTop(f) == [stack EXCEPT ![Len(stack)] = f]

\* -------------------------------------------------------------- part_1
\* part_1(shapes, queries) is called.
InitPart1 ==
  /\ entry = "part_1"
  /\ shapes \in ShapeTables
  /\ qi = 0
  /\ query = NoQuery
  /\ can_fit = Unknown
  /\ count = 0
  /\ all_orientations = None
  /\ grid = NoGrid
  /\ memo = NoMemo
  /\ stack = <<>>
  /\ idx = 0
  /\ ret = FALSE
  /\ pc = "next"
  /\ placed = <<>>
  /\ outcomes = <<>>
  /\ generated = [shape_id \in DOMAIN shapes |-> 0]
  /\ estimates = <<>>
  /\ visits = <<>>
  /\ result = NoResult
  /\ last_call = NoCall
  /\ before = NoGrid

\* solve_region_backtrack(width, height, present_counts, all_orientations) is
\* called on its own, with the orientations of the shapes: it makes its grid
\* and memo and calls backtrack(0).
InitSolve ==
  /\ entry = "solve_region_backtrack"
  /\ shapes \in ShapeTables
  /\ qi = 0
  /\ query \in Queries(shapes)
  /\ can_fit = Unknown
  /\ count = 0
  /\ all_orientations =
       Some([shape_id \in DOMAIN shapes |-> get_all_orientations(shapes[shape_id])])
  /\ grid = EmptyGrid(query.width, query.height)
  /\ memo = NoMemo
  /\ stack = <<>>
  /\ idx = 0
  /\ ret = FALSE
  /\ pc = "call"
  /\ placed = <<>>
  /\ outcomes = <<>>
  /\ generated = [shape_id \in DOMAIN shapes |-> 1]
  /\ estimates = <<>>
  /\ visits = <<>>
  /\ result = NoResult
  /\ last_call = NoCall
  /\ before = NoGrid

Init == InitPart1 \/ InitSolve

\* for query in queries: ...; can_fit = can_fit_by_area(...).  The loop reads
\* queries[qi] only in iteration qi, so the list is drawn one query at a time:
\* any list of at most MaxQueries queries.
Estimate ==
  /\ pc = "next"
  /\ qi < MaxQueries
  /\ \E q \in Queries(shapes) :
       /\ query' = q
       /\ can_fit' = can_fit_by_area(q.width, q.height, q.counts, shape_sizes)
  /\ qi' = qi + 1
  /\ pc' = "estimated"
  /\ estimates' = Append(estimates, can_fit')
  /\ UNCHANGED <<visits, result, last_call, before, entry, shapes, count,
                 all_orientations, grid, memo, stack, idx, ret, placed,
                 outcomes, generated>>

\* if can_fit is True: count += 1
CountFits ==
  /\ pc = "estimated"
  /\ can_fit = Fits
  /\ count' = count + 1
  /\ outcomes' = Append(outcomes, TRUE)
  /\ pc' = "next"
  /\ UNCHANGED <<estimates, visits, result, last_call, before, entry, shapes,
                 qi, query, can_fit, all_orientations, grid, memo, stack, idx,
                 ret, placed, generated>>

\* elif can_fit is False: nothing is counted
SkipNoFit ==
  /\ pc = "estimated"
  /\ can_fit = DoesNotFit
  /\ outcomes' = Append(outcomes, FALSE)
  /\ pc' = "next"
  /\ UNCHANGED <<estimates, visits, result, last_call, before, entry, shapes,
                 qi, query, can_fit, count, all_orientations, grid, memo,
                 stack, idx, ret, placed, generated>>

\* A mutant of StartSearch: the orientations are built for every query that
\* is searched.
StartSearchRebuilds ==
  /\ pc = "estimated"
  /\ can_fit = Unknown
  /\ all_orientations' =
       Some([shape_id \in DOMAIN shapes |-> get_all_orientations(shapes[shape_id])])
  /\ generated' = [shape_id \in DOMAIN shapes |-> generated[shape_id] + 1]
  /\ grid' = EmptyGrid(query.width, query.height)
  /\ memo' = NoMemo
  /\ stack' = <<>>
  /\ placed' = <<>>
  /\ idx' = 0
  /\ pc' = "call"
  /\ visits' = <<>>
  /\ UNCHANGED <<estimates, result, last_call, before, entry, shapes, qi,
                 query, can_fit, count, ret, outcomes>>

\* A mutant of StartSearch: the search is also run on the estimator's answer
\* False.
StartSearchUnlessFits ==
  /\ pc = "estimated"
  /\ can_fit # Fits
  /\ IF all_orientations = None
     THEN /\ all_orientations' =
               Some([shape_id \in DOMAIN shapes |->
                       get_all_orientations(shapes[shape_id])])
          /\ generated' = [shape_id \in DOMAIN shapes |-> generated[shape_id] + 1]
     ELSE UNCHANGED <<all_orientations, generated>>
  /\ grid' = EmptyGrid(query.width, query.height)
  /\ memo' = NoMemo
  /\ stack' = <<>>
  /\ placed' = <<>>
  /\ idx' = 0
  /\ pc' = "call"
  /\ visits' = <<>>
  /\ UNCHANGED <<estimates, result, last_call, before, entry, shapes, qi,
                 query, can_fit, count, ret, outcomes>>

\* else: build the orientations if they are still None, then call
\* solve_region_backtrack, which makes its grid and memo and calls backtrack(0)
StartSearch ==
  /\ pc = "estimated"
  /\ can_fit = Unknown
  /\ IF all_orientations = None
     THEN /\ all_orientations' =
               Some([shape_id \in DOMAIN shapes |->
                       get_all_orientations(shapes[shape_id])])
          /\ generated' = [shape_id \in DOMAIN shapes |-> generated[shape_id] + 1]
     ELSE UNCHANGED <<all_orientations, generated>>
  /\ grid' = EmptyGrid(query.width, query.height)
  /\ memo' = NoMemo
  /\ stack' = <<>>
  /\ placed' = <<>>
  /\ idx' = 0
  /\ pc' = "call"
  /\ visits' = <<>>
  /\ UNCHANGED <<estimates, result, last_call, before, entry, shapes, qi,
                 query, can_fit, count, ret, outcomes>>

\* ------------------------------------------------------------- backtrack
\* if idx == len(presents): return True
ReturnAllPlaced ==
  /\ pc = "call"
  /\ idx = Len(presents)
  /\ ret' = TRUE
  /\ pc' = "return"
  /\ UNCHANGED <<estimates, visits, result, last_call, before, entry, shapes,
                 qi, query, can_fit, count, all_orientations, grid, memo,
                 stack, idx, placed, outcomes, generated>>

\* if state in memo: return memo[state]
ReturnMemo ==
  /\ pc = "call"
  /\ idx # Len(presents)
  /\ MemoKey(grid, idx) \in DOMAIN memo
  /\ ret' = memo[MemoKey(grid, idx)]
  /\ pc' = "return"
  /\ visits' = Recalled(<<grid, idx>>)
  /\ UNCHANGED <<estimates, result, last_call, before, entry, shapes, qi,
                 query, can_fit, count, all_orientations, grid, memo, stack,
                 idx, placed, outcomes, generated>>

\* A mutant of Prune: the test is >= for >.
PruneWhenEqual ==
  /\ pc = "call"
  /\ idx # Len(presents)
  /\ MemoKey(grid, idx) \notin DOMAIN memo
  /\ Len(presents) - idx >= count_empty_cells(grid)
  /\ memo' = (MemoKey(grid, idx) :> FALSE) @@ memo
  /\ ret' = FALSE
  /\ pc' = "return"
  /\ visits' = Explored(<<grid, idx>>)
  /\ UNCHANGED <<estimates, result, last_call, before, entry, shapes, qi,
                 query, can_fit, count, all_orientations, grid, stack, idx,
                 placed, outcomes, generated>>

\* if remaining_presents > count_empty_cells(): memo[state] = False; return False
Prune ==
  /\ pc = "call"
  /\ idx # Len(presents)
  /\ MemoKey(grid, idx) \notin DOMAIN memo
  /\ Len(presents) - idx > count_empty_cells(grid)
  /\ memo' = (MemoKey(grid, idx) :> FALSE) @@ memo
  /\ ret' = FALSE
  /\ pc' = "return"
  /\ visits' = Explored(<<grid, idx>>)
  /\ UNCHANGED <<estimates, result, last_call, before, entry, shapes, qi,
                 query, can_fit, count, all_orientations, grid, stack, idx,
                 placed, outcomes, generated>>

\* shape_id = presents[idx]; adjacent_positions = get_adjacent_positions();
\* the loop over the orientations of the shape starts.  The frame holds the
\* orientations and, for the current orientation, the positions the loops
\* have still to take (none yet: no orientation is current).
EnterLoops ==
  /\ pc = "call"
  /\ idx # Len(presents)
  /\ MemoKey(grid, idx) \notin DOMAIN memo
  /\ ~(Len(presents) - idx > count_empty_cells(grid))
  /\ stack' = Append(stack,
       [idx |-> idx,
        state |-> MemoKey(grid, idx),
        shape_id |-> presents[idx + 1],
        adjacent_positions |->
          get_adjacent_positions(grid, query.width, query.height),
        orientations |-> all_orientations[1][presents[idx + 1]],
        orientation |-> {},
        positions |-> {},
        row |-> 0,
        col |-> 0])
  /\ pc' = "loop"
  /\ visits' = Explored(<<grid, idx>>)
  /\ UNCHANGED <<estimates, result, last_call, before, entry, shapes, qi,
                 query, can_fit, count, all_orientations, grid, memo, idx,
                 ret, placed, outcomes, generated>>

\* The positions among ps at which can_place is true for orientation o.  An
\* iteration of the loops at which can_place is false assigns nothing, so it
\* is taken together with the step that follows it.
Placeable(o, ps) ==
  {p \in ps : can_place(grid, o, p[1], p[2], query.width, query.height)}

\* A mutant of PlaceAt: backtrack is called with idx for idx + 1.
PlaceAtSameIndex(f, p) ==
  /\ grid' = place(grid, f.orientation, p[1], p[2], TRUE)
  /\ stack' = SetTop([f EXCEPT !.positions = @ \ {p}, !.row = p[1], !.col = p[2]])
  /\ placed' = Append(placed, [shape_id |-> f.shape_id,
                               orientation |-> f.orientation,
                               row |-> p[1], col |-> p[2]])
  /\ idx' = f.idx
  /\ pc' = "call"

\* if can_place(...): place(grid, orientation, row, col, True), and
\* backtrack(idx + 1) is called.  Frame f is the top frame with its loops
\* advanced to orientation f.orientation and position p.
PlaceAt(f, p) ==
  /\ grid' = place(grid, f.orientation, p[1], p[2], TRUE)
  /\ stack' = SetTop([f EXCEPT !.positions = @ \ {p}, !.row = p[1], !.col = p[2]])
  /\ placed' = Append(placed, [shape_id |-> f.shape_id,
                               orientation |-> f.orientation,
                               row |-> p[1], col |-> p[2]])
  /\ idx' = f.idx + 1
  /\ pc' = "call"

\* for row, col in adjacent_positions: the loop over the positions goes on
\* under the current orientation to a position where the shape can be placed
PlaceNextPosition ==
  /\ pc = "loop"
  /\ \E p \in Placeable(Top.orientation, Top.positions) : PlaceAt(Top, p)
  /\ UNCHANGED <<estimates, visits, result, last_call, before, entry, shapes,
                 qi, query, can_fit, count, all_orientations, memo, ret,
                 outcomes, generated>>

\* for orientation in all_orientations[shape_id]: the loop over the positions
\* has ended for the current orientation, and the loops go on to another
\* orientation and a position where it can be placed
PlaceNextOrientation ==
  /\ pc = "loop"
  /\ Placeable(Top.orientation, Top.positions) = {}
  /\ \E o \in Top.orientations :
       \E p \in Placeable(o, Top.adjacent_positions) :
         PlaceAt([Top EXCEPT !.orientation = o,
                             !.orientations = @ \ {o},
                             !.positions = Top.adjacent_positions], p)
  /\ UNCHANGED <<estimates, visits, result, last_call, before, entry, shapes,
                 qi, query, can_fit, count, all_orientations, memo, ret,
                 outcomes, generated>>

\* A mutant of Exhausted: the failure is not recorded in the memo.
ExhaustedForgets ==
  /\ pc = "loop"
  /\ Placeable(Top.orientation, Top.positions) = {}
  /\ \A o \in Top.orientations : Placeable(o, Top.adjacent_positions) = {}
  /\ memo' = memo
  /\ stack' = Pop
  /\ ret' = FALSE
  /\ pc' = "return"
  /\ UNCHANGED <<estimates, visits, result, last_call, before, entry, shapes,
                 qi, query, can_fit, count, all_orientations, grid, idx,
                 placed, outcomes, generated>>

\* A mutant of Exhausted: false is returned when the positions of the first
\* orientation taken are used up, whether or not it could be placed.
ExhaustedEarly ==
  /\ pc = "loop"
  /\ Placeable(Top.orientation, Top.positions) = {}
  /\ \/ Top.orientation # {}
     \/ \E o \in Top.orientations : Placeable(o, Top.adjacent_positions) = {}
  /\ memo' = (Top.state :> FALSE) @@ memo
  /\ stack' = Pop
  /\ ret' = FALSE
  /\ pc' = "return"
  /\ UNCHANGED <<estimates, visits, result, last_call, before, entry, shapes,
                 qi, query, can_fit, count, all_orientations, grid, idx,
                 placed, outcomes, generated>>

\* both loops have ended: memo[state] = False; return False
Exhausted ==
  /\ pc = "loop"
  /\ Placeable(Top.orientation, Top.positions) = {}
  /\ \A o \in Top.orientations : Placeable(o, Top.adjacent_positions) = {}
  /\ memo' = (Top.state :> FALSE) @@ memo
  /\ stack' = Pop
  /\ ret' = FALSE
  /\ pc' = "return"
  /\ UNCHANGED <<estimates, visits, result, last_call, before, entry, shapes,
                 qi, query, can_fit, count, all_orientations, grid, idx,
                 placed, outcomes, generated>>

\* if backtrack(idx + 1): memo[state] = True; return True
ChildSucceeded ==
  /\ pc = "return"
  /\ stack # <<>>
  /\ ret = TRUE
  /\ memo' = (Top.state :> TRUE) @@ memo
  /\ stack' = Pop
  /\ UNCHANGED <<estimates, visits, result, last_call, before, entry, shapes,
                 qi, query, can_fit, count, all_orientations, grid, idx, ret,
                 pc, placed, outcomes, generated>>

\* A mutant of ChildFailed: the placement is not undone.
ChildFailedKeepsPlacement ==
  /\ pc = "return"
  /\ stack # <<>>
  /\ ret = FALSE
  /\ grid' = grid
  /\ placed' = SubSeq(placed, 1, Len(placed) - 1)
  /\ pc' = "loop"
  /\ UNCHANGED <<estimates, visits, result, last_call, before, entry, shapes,
                 qi, query, can_fit, count, all_orientations, memo, stack,
                 idx, ret, outcomes, generated>>

\* backtrack(idx + 1) was false: place(grid, orientation, row, col, False),
\* and the loops go on
ChildFailed ==
  /\ pc = "return"
  /\ stack # <<>>
  /\ ret = FALSE
  /\ grid' = place(grid, Top.orientation, Top.row, Top.col, FALSE)
  /\ placed' = SubSeq(placed, 1, Len(placed) - 1)
  /\ pc' = "loop"
  /\ UNCHANGED <<estimates, visits, result, last_call, before, entry, shapes,
                 qi, query, can_fit, count, all_orientations, memo, stack,
                 idx, ret, outcomes, generated>>

\* A mutant of SearchReturns: a searched query is counted whatever the answer.
SearchReturnsAlwaysCounts ==
  /\ pc = "return"
  /\ stack = <<>>
  /\ grid' = NoGrid
  /\ memo' = NoMemo
  /\ placed' = <<>>
  /\ outcomes' = Append(outcomes, ret)
  /\ IF entry = "part_1"
     THEN /\ count' = count + 1
          /\ pc' = "next"
     ELSE /\ count' = count
          /\ pc' = "done"
  /\ visits' = <<>>
  /\ UNCHANGED <<estimates, result, last_call, before, entry, shapes, qi,
                 query, can_fit, all_orientations, stack, idx, ret,
                 generated>>

\* backtrack(0) has returned, and so solve_region_backtrack: its grid and
\* memo are dropped.  Under part_1 the query is counted if the answer is
\* true, and the loop over the queries goes on.
SearchReturns ==
  /\ pc = "return"
  /\ stack = <<>>
  /\ grid' = NoGrid
  /\ memo' = NoMemo
  /\ placed' = <<>>
  /\ outcomes' = Append(outcomes, ret)
  /\ IF entry = "part_1"
     THEN /\ count' = IF ret THEN count + 1 ELSE count
          /\ pc' = "next"
     ELSE /\ count' = count
          /\ pc' = "done"
  /\ visits' = <<>>
  /\ UNCHANGED <<estimates, result, last_call, before, entry, shapes, qi,
                 query, can_fit, all_orientations, stack, idx, ret,
                 generated>>

\* the queries are used up: return count
Finish ==
  /\ pc = "next"
  /\ pc' = "done"
  /\ UNCHANGED <<estimates, visits, result, last_call, before, entry, shapes,
                 qi, query, can_fit, count, all_orientations, grid, memo,
                 stack, idx, ret, placed, outcomes, generated>>

Next ==
  \/ Estimate
  \/ CountFits
  \/ SkipNoFit
  \/ StartSearch
  \/ ReturnAllPlaced
  \/ ReturnMemo
  \/ Prune
  \/ EnterLoops
  \/ PlaceNextPosition
  \/ PlaceNextOrientation
  \/ Exhausted
  \/ ChildSucceeded
  \/ ChildFailed
  \/ SearchReturns
  \/ Finish

Spec == Init /\ [][Next]_vars

\* ------------------------------------ solve_region_backtrack on its own
NextSolve ==
  \/ ReturnAllPlaced
  \/ ReturnMemo
  \/ Prune
  \/ EnterLoops
  \/ PlaceNextPosition
  \/ PlaceNextOrientation
  \/ Exhausted
  \/ ChildSucceeded
  \/ ChildFailed
  \/ SearchReturns

\* One call of solve_region_backtrack on its own.  The program is
\* sequential: while a step is left to take, it is taken.
SpecSolve == InitSolve /\ [][NextSolve]_vars /\ WF_vars(NextSolve)

\* solve_region_backtrack has returned, and is called once more on the same
\* arguments: it makes a new grid and memo and calls backtrack(0).  The
\* iteration orders of the new call are its own.
CallAgain ==
  /\ entry = "solve_region_backtrack"
  /\ pc = "done"
  /\ Len(outcomes) < MaxRuns
  /\ grid' = EmptyGrid(query.width, query.height)
  /\ memo' = NoMemo
  /\ stack' = <<>>
  /\ placed' = <<>>
  /\ visits' = <<>>
  /\ idx' = 0
  /\ pc' = "call"
  /\ UNCHANGED <<estimates, result, last_call, before, entry, shapes, qi,
                 query, can_fit, count, all_orientations, ret, outcomes,
                 generated>>

NextRuns ==
  \/ NextSolve
  \/ CallAgain

\* Up to MaxRuns calls of solve_region_backtrack on the same arguments.
SpecRuns == InitSolve /\ [][NextRuns]_vars

\* ------------------------------------------- the estimator on its own
\* A shape of k cells.
ShapeOfSize(k) == {<<0, c>> : c \in 0 .. k - 1}

\* can_fit_by_area is called on a region, a counts vector for two shape ids
\* and shapes of any sizes.
InitEstimator ==
  /\ entry = "can_fit_by_area"
  /\ shapes \in [0 .. 1 -> {ShapeOfSize(k) : k \in 1 .. MaxShapeCells}]
  /\ query \in [width : 1 .. MaxEstimatorSide, height : 1 .. MaxEstimatorSide,
                counts : [0 .. 1 -> 0 .. MaxEstimatorCount]]
  /\ qi = 0
  /\ can_fit = Unknown
  /\ count = 0
  /\ all_orientations = None
  /\ grid = NoGrid
  /\ memo = NoMemo
  /\ stack = <<>>
  /\ idx = 0
  /\ ret = FALSE
  /\ pc = "estimate"
  /\ placed = <<>>
  /\ outcomes = <<>>
  /\ generated = [shape_id \in DOMAIN shapes |-> 0]
  /\ estimates = <<>>
  /\ visits = <<>>
  /\ result = NoResult
  /\ last_call = NoCall
  /\ before = NoGrid

\* can_fit = can_fit_by_area(width, height, present_counts, shape_sizes)
EstimateAlone ==
  /\ pc = "estimate"
  /\ can_fit' = can_fit_by_area(query.width, query.height, query.counts, shape_sizes)
  /\ pc' = "estimated"
  /\ UNCHANGED <<estimates, visits, result, entry, shapes, qi, query, count,
                 all_orientations, grid, memo, stack, idx, ret, placed,
                 outcomes, generated, last_call, before>>

SpecEstimator == InitEstimator /\ [][EstimateAlone]_vars

\* ------------------------------- the estimator on shapes of all extents
\* The shapes the estimator's block bound is tried on: shapes of one to nine
\* cells, all but the 1x4 bar inside a 3x3 box.
BlockShapes ==
  {Monomino, Domino, ShortBar, LTromino, Square, Plus, Block, Bar}

\* can_fit_by_area is called on a region of sides up to MaxBlockSide, two
\* shapes and their counts.
InitBlocks ==
  /\ entry = "can_fit_by_area"
  /\ shapes \in [0 .. 1 -> BlockShapes]
  /\ query \in [width : 1 .. MaxBlockSide, height : 1 .. MaxBlockSide,
                counts : [0 .. 1 -> 0 .. MaxBlockCount]]
  /\ qi = 0
  /\ can_fit = Unknown
  /\ count = 0
  /\ all_orientations = None
  /\ grid = NoGrid
  /\ memo = NoMemo
  /\ stack = <<>>
  /\ idx = 0
  /\ ret = FALSE
  /\ pc = "estimate"
  /\ placed = <<>>
  /\ outcomes = <<>>
  /\ generated = [shape_id \in DOMAIN shapes |-> 0]
  /\ estimates = <<>>
  /\ visits = <<>>
  /\ result = NoResult
  /\ last_call = NoCall
  /\ before = NoGrid

SpecBlocks == InitBlocks /\ [][EstimateAlone]_vars

\* ------------------------------------- the placement engine on its own
\* The shapes the engine is called with: the orientations of three shapes.
EngineShapes ==
  UNION {get_all_orientations(sh) : sh \in {Monomino, Domino, LTromino}}

\* The offsets the engine is called at in a region: those inside it and the
\* ones just outside its edges.
EngineOffsets(q) == (-1 .. q.height) \X (-1 .. q.width)

\* The regions the engine is driven on.
EngineRegions ==
  {q \in [width : 1 .. MaxEngineArea, height : 1 .. MaxEngineArea,
          counts : {<<>>}] : q.width * q.height <= MaxEngineArea}

\* place is called on any grid of at most MaxEngineArea cells.
InitEngine ==
  /\ entry = "place"
  /\ shapes = <<>>
  /\ query \in EngineRegions
  /\ grid \in [GridCells(query.width, query.height) -> BOOLEAN]
  /\ before = grid
  /\ qi = 0
  /\ can_fit = Unknown
  /\ count = 0
  /\ all_orientations = None
  /\ memo = NoMemo
  /\ stack = <<>>
  /\ idx = 0
  /\ ret = FALSE
  /\ pc = "engine"
  /\ placed = <<>>
  /\ outcomes = <<>>
  /\ generated = <<>>
  /\ estimates = <<>>
  /\ visits = <<>>
  /\ result = NoResult
  /\ last_call = NoCall

\* place(grid, cells, row, col, True), called as its callers must: when
\* can_place is true for the shape and the offset
CallPlace ==
  /\ Len(placed) < MaxMarked
  /\ \E cells \in EngineShapes :
       \E a \in EngineOffsets(query) :
         /\ can_place(grid, cells, a[1], a[2], query.width, query.height)
         /\ grid' = place(grid, cells, a[1], a[2], TRUE)
         /\ placed' = Append(placed, [shape_id |-> 0, orientation |-> cells,
                                      row |-> a[1], col |-> a[2]])
         /\ last_call' = [fn |-> "place", cells |-> cells,
                          row |-> a[1], col |-> a[2], mark |-> TRUE]
  /\ UNCHANGED <<estimates, visits, result, entry, shapes, qi, query, can_fit,
                 count, all_orientations, memo, stack, idx, ret, pc, outcomes,
                 generated, before>>

\* place(grid, cells, row, col, False) with the shape and the offset of a
\* placement marked before and not yet undone, whichever it is
CallUnplace ==
  /\ \E i \in 1 .. Len(placed) :
       /\ grid' = place(grid, placed[i].orientation, placed[i].row,
                        placed[i].col, FALSE)
       /\ placed' = SubSeq(placed, 1, i - 1) \o SubSeq(placed, i + 1, Len(placed))
       /\ last_call' = [fn |-> "place", cells |-> placed[i].orientation,
                        row |-> placed[i].row, col |-> placed[i].col,
                        mark |-> FALSE]
  /\ UNCHANGED <<estimates, visits, result, entry, shapes, qi, query, can_fit,
                 count, all_orientations, memo, stack, idx, ret, pc, outcomes,
                 generated, before>>

NextEngine ==
  \/ CallPlace
  \/ CallUnplace

SpecEngine == InitEngine /\ [][NextEngine]_vars

\* can_place is called on any grid of at most MaxEngineArea cells with any of
\* the shapes at any of the offsets.
InitCanPlace ==
  /\ entry = "can_place"
  /\ shapes = <<>>
  /\ query \in EngineRegions
  /\ grid \in [GridCells(query.width, query.height) -> BOOLEAN]
  /\ before = grid
  /\ \E cells \in EngineShapes :
       \E a \in EngineOffsets(query) :
         last_call = [fn |-> "can_place", cells |-> cells,
                      row |-> a[1], col |-> a[2], mark |-> FALSE]
  /\ qi = 0
  /\ can_fit = Unknown
  /\ count = 0
  /\ all_orientations = None
  /\ memo = NoMemo
  /\ stack = <<>>
  /\ idx = 0
  /\ ret = FALSE
  /\ pc = "can_place"
  /\ placed = <<>>
  /\ outcomes = <<>>
  /\ generated = <<>>
  /\ estimates = <<>>
  /\ visits = <<>>
  /\ result = NoResult

\* can_place runs to its return; it assigns to nothing but its locals
CanPlaceReturns ==
  /\ pc = "can_place"
  /\ ret' = can_place(grid, last_call.cells, last_call.row, last_call.col,
                      query.width, query.height)
  /\ pc' = "returned"
  /\ UNCHANGED <<estimates, visits, result, entry, shapes, qi, query, can_fit,
                 count, all_orientations, grid, memo, stack, idx, placed,
                 outcomes, generated, last_call, before>>

SpecCanPlace == InitCanPlace /\ [][CanPlaceReturns]_vars

\* ------------------------------------ get_adjacent_positions on its own
\* get_adjacent_positions is called on any grid of at most MaxEngineArea
\* cells.
InitAdjacent ==
  /\ entry = "get_adjacent_positions"
  /\ shapes = <<>>
  /\ query \in EngineRegions
  /\ grid \in [GridCells(query.width, query.height) -> BOOLEAN]
  /\ before = grid
  /\ last_call = NoCall
  /\ qi = 0
  /\ can_fit = Unknown
  /\ count = 0
  /\ all_orientations = None
  /\ memo = NoMemo
  /\ stack = <<>>
  /\ idx = 0
  /\ ret = FALSE
  /\ pc = "get_adjacent_positions"
  /\ placed = <<>>
  /\ outcomes = <<>>
  /\ generated = <<>>
  /\ estimates = <<>>
  /\ visits = <<>>
  /\ result = NoResult

\* get_adjacent_positions runs to its return; it reads the grid only
AdjacentReturns ==
  /\ pc = "get_adjacent_positions"
  /\ result' = <<get_adjacent_positions(grid, query.width, query.height)>>
  /\ pc' = "returned"
  /\ UNCHANGED <<estimates, visits, entry, shapes, qi, query, can_fit, count,
                 all_orientations, grid, memo, stack, idx, ret, placed,
                 outcomes, generated, last_call, before>>

SpecAdjacent == InitAdjacent /\ [][AdjacentReturns]_vars

\* ---------------------------------------- the shape functions on their own
\* The shapes the functions are called on: the subsets of the box, the empty
\* set among them.
ShapeInputs ==
  {cells \in SUBSET ((0 .. MaxShapeSide - 1) \X (0 .. MaxShapeSide - 1)) :
     Cardinality(cells) <= MaxShapeSide + 1}

\* The lines of the input text that draw a shape of non-negative cells: "#"
\* at its cells and "." elsewhere, up to its last row and column.
Lines(cells) ==
  IF cells = {} THEN <<>>
  ELSE [r \in 1 .. Max({p[1] : p \in cells}) + 1 |->
          [c \in 1 .. Max({p[2] : p \in cells}) + 1 |->
             IF <<r - 1, c - 1>> \in cells THEN "#" ELSE "."]]

\* A shape function is about to be called on a shape: shapes[0] moved by
\* (last_call.row, last_call.col).
InitShapes ==
  /\ entry = "shapes"
  /\ shapes \in {(0 :> cells) : cells \in ShapeInputs}
  /\ \E dr \in -MaxShift .. MaxShift :
       \E dc \in -MaxShift .. MaxShift :
         last_call = [fn |-> "none", cells |-> Translate(shapes[0], dr, dc),
                      row |-> dr, col |-> dc, mark |-> FALSE]
  /\ qi = 0
  /\ query = NoQuery
  /\ can_fit = Unknown
  /\ count = 0
  /\ all_orientations = None
  /\ grid = NoGrid
  /\ memo = NoMemo
  /\ stack = <<>>
  /\ idx = 0
  /\ ret = FALSE
  /\ pc = "shape"
  /\ placed = <<>>
  /\ outcomes = <<>>
  /\ generated = [shape_id \in DOMAIN shapes |-> 0]
  /\ before = NoGrid
  /\ estimates = <<>>
  /\ visits = <<>>
  /\ result = NoResult

\* A shape function returns value: result lists the values returned so far.
ShapeCallReturns(fn, value) ==
  /\ last_call' = [last_call EXCEPT !.fn = fn]
  /\ result' = Append(result, value)
  /\ UNCHANGED <<entry, shapes, qi, query, can_fit, count, all_orientations,
                 grid, memo, stack, idx, ret, placed, outcomes, generated,
                 before, estimates, visits>>

\* normalize(coords) is called on the shape
CallNormalize ==
  /\ pc = "shape"
  /\ pc' = "returned"
  /\ ShapeCallReturns("normalize", normalize(last_call.cells))

\* normalize is called on what normalize returned
CallNormalizeAgain ==
  /\ pc = "returned"
  /\ last_call.fn = "normalize"
  /\ pc' = "returned again"
  /\ ShapeCallReturns("normalize", normalize(result[Len(result)]))

\* extract_shape_from_lines(lines) is called on the lines that draw the
\* shape; lines draw cells of non-negative rows and columns only
CallExtract ==
  /\ pc = "shape"
  /\ \A p \in last_call.cells : p[1] >= 0 /\ p[2] >= 0
  /\ pc' = "returned"
  /\ ShapeCallReturns("extract_shape_from_lines",
                      extract_shape_from_lines(Lines(last_call.cells)))

\* get_all_orientations(cells) is called on the shape
CallOrientations ==
  /\ pc = "shape"
  /\ pc' = "returned"
  /\ ShapeCallReturns("get_all_orientations",
                      ListOf(get_all_orientations(last_call.cells)))

NextShapes ==
  \/ CallNormalize
  \/ CallNormalizeAgain
  \/ CallExtract
  \/ CallOrientations

SpecShapes == InitShapes /\ [][NextShapes]_vars

\* ------------------------------------------------ what the claims speak of
\* The eight symmetries of the square: the image of cell p under symmetry k.
SymmetryImage(k, p) ==
  CASE k = 0 -> <<p[1], p[2]>>
    [] k = 1 -> <<p[2], -p[1]>>
    [] k = 2 -> <<-p[1], -p[2]>>
    [] k = 3 -> <<-p[2], p[1]>>
    [] k = 4 -> <<p[1], -p[2]>>
    [] k = 5 -> <<-p[2], -p[1]>>
    [] k = 6 -> <<-p[1], p[2]>>
    [] k = 7 -> <<p[2], p[1]>>

\* Shape cells moved so that the least row and the least column are 0.
Anchored(cells) ==
  {<<p[1] - Min({x[1] : x \in cells}), p[2] - Min({x[2] : x \in cells})>> : p \in cells}

\* Every orientation of a non-empty shape: its images under the symmetries.
OrientationsOf(cells) ==
  {Anchored({SymmetryImage(k, p) : p \in cells}) : k \in 0 .. 7}

RECURSIVE PackingFrom(_, _, _, _)
\* Some choice of an orientation and an in-grid offset for each of the
\* presents ps[i], ps[i + 1], ... keeps them off the cells occ and off each
\* other.
PackingFrom(occ, i, ps, q) ==
  \/ i > Len(ps)
  \/ \E o \in OrientationsOf(shapes[ps[i]]) :
       \E a \in GridCells(q.width, q.height) :
         LET cells == Translate(o, a[1], a[2])
         IN  /\ cells \subseteq GridCells(q.width, q.height)
             /\ cells \cap occ = {}
             /\ PackingFrom(occ \cup cells, i + 1, ps, q)

\* All the required shapes of query q can be packed into its region.
Packable(q) == PackingFrom({}, 1, PresentsFrom(q.counts, 0), q)

\* The cells a placement covers.
CellsOf(pl) == Translate(pl.orientation, pl.row, pl.col)

\* solve_region_backtrack has its answer, in ret, and has not yet returned.
SearchAnswered == pc = "return" /\ stack = <<>>

\* C1: whenever solve_region_backtrack answers true, the placements kept on
\* the grid are a valid packing: one placement per present, in the order of
\* the presents list, each of an orientation of its shape, every cell inside
\* the height x width grid, no two placements sharing a cell; and the grid
\* marks exactly their cells.
SearchSoundness ==
  (SearchAnswered /\ ret) =>
    /\ Len(placed) = Len(presents)
    /\ \A i \in 1 .. Len(placed) :
         /\ placed[i].shape_id = presents[i]
         /\ placed[i].orientation \in OrientationsOf(shapes[presents[i]])
         /\ CellsOf(placed[i]) \subseteq GridCells(query.width, query.height)
    /\ \A i, j \in 1 .. Len(placed) :
         i # j => CellsOf(placed[i]) \cap CellsOf(placed[j]) = {}
    /\ \A p \in DOMAIN grid :
         grid[p] <=> \E i \in 1 .. Len(placed) : p \in CellsOf(placed[i])

\* C1's case: the search has answered true for three presents of two shapes.
SearchSoundnessWitness ==
  /\ SearchAnswered
  /\ ret
  /\ Len(presents) = 3
  /\ Cardinality({presents[i] : i \in 1 .. Len(presents)}) = 2

\* C2: whenever some valid packing of all the required shapes exists,
\* solve_region_backtrack answers true.
SearchCompleteness == (SearchAnswered /\ Packable(query)) => ret

\* C3: can_fit_by_area never answers True for a query whose shapes cannot all
\* be packed into the region.
EstimatorFitsSound == (pc = "estimated" /\ can_fit = Fits) => Packable(query)

\* C4: can_fit_by_area never answers False for a query whose shapes can all
\* be packed into the region.
EstimatorDoesNotFitSound ==
  (pc = "estimated" /\ can_fit = DoesNotFit) => ~Packable(query)

\* C4's case: the estimator has answered False for a region with room for
\* some of the presents but not for all.
EstimatorDoesNotFitWitness ==
  /\ pc = "estimated"
  /\ can_fit = DoesNotFit
  /\ Len(presents) = 3
  /\ query.width * query.height >= 6

\* C6: on a query for which can_fit_by_area has a definite answer,
\* solve_region_backtrack answers the same.
EstimatorAgreesWithSearch ==
  LET est == can_fit_by_area(query.width, query.height, query.counts, shape_sizes)
  IN  (SearchAnswered /\ est # Unknown) => (ret <=> est = Fits)

RECURSIVE NoMemoBacktrack(_, _)
\* backtrack(i) from grid g with the memo table disabled: no lookup at entry,
\* no recording.
NoMemoBacktrack(g, i) ==
  IF i = Len(presents) THEN TRUE
  ELSE IF Len(presents) - i > count_empty_cells(g) THEN FALSE
  ELSE \E o \in all_orientations[1][presents[i + 1]] :
         \E p \in get_adjacent_positions(g, query.width, query.height) :
           /\ can_place(g, o, p[1], p[2], query.width, query.height)
           /\ NoMemoBacktrack(place(g, o, p[1], p[2], TRUE), i + 1)

\* C8: solve_region_backtrack answers as the search without the memo table
\* does, and every value stored under a key (grid state, idx) is the answer
\* of the search without the memo table from that grid and index.
MemoCorrectness ==
  SearchAnswered =>
    /\ ret = NoMemoBacktrack(EmptyGrid(query.width, query.height), 0)
    /\ \A k \in DOMAIN memo : memo[k] = NoMemoBacktrack(k[1], k[2])

\* C8's case: the search has answered with failures recorded for states two
\* or more presents deep and a success recorded.
MemoCorrectnessWitness ==
  /\ SearchAnswered
  /\ \E k \in DOMAIN memo : memo[k] = FALSE /\ k[2] >= 2
  /\ \E k \in DOMAIN memo : memo[k] = TRUE

\* C5: can_fit_by_area answers False whenever the required cells exceed
\* width * height, whatever the number of items; otherwise it answers True
\* exactly when the number of items is at most floor(width / 3) *
\* floor(height / 3); otherwise it answers None.
EstimatorClassification ==
  LET required == query.counts[0] * Cardinality(shapes[0])
                    + query.counts[1] * Cardinality(shapes[1])
      items == query.counts[0] + query.counts[1]
      blocks == (query.width \div 3) * (query.height \div 3)
  IN  pc = "estimated" =>
        /\ required > query.width * query.height => can_fit = DoesNotFit
        /\ required <= query.width * query.height =>
             /\ can_fit = Fits <=> items <= blocks
             /\ can_fit = Unknown <=> items > blocks

\* C5's case: the required cells exceed the area while the items are no more
\* than the 3x3 blocks, and the estimator has answered False.
EstimatorClassificationWitness ==
  /\ entry = "can_fit_by_area"
  /\ pc = "estimated"
  /\ can_fit = DoesNotFit
  /\ query.counts[0] + query.counts[1] = 1
  /\ (query.width \div 3) * (query.height \div 3) = 1

\* The step of part_1 that ends the iteration for query q over shapes sh.
Resolves(q, sh) ==
  /\ entry = "part_1"
  /\ shapes = sh
  /\ query = q
  /\ pc # "next"
  /\ pc' = "next"

\* C7: part_1 counts a 3x3 region with one 1x1 shape; it does not count a
\* 2x2 region with two 2x2 squares, on the estimator's answer False; it
\* counts a 4x4 region with four 2x2 squares.
FixedSmallCases ==
  [][ /\ Resolves(OneCellIn3x3, (0 :> Monomino)) => count' = count + 1
      /\ Resolves(TwoSquaresIn2x2, (0 :> Square)) =>
           (pc = "estimated" /\ can_fit = DoesNotFit /\ count' = count)
      /\ Resolves(FourSquaresIn4x4, (0 :> Square)) => count' = count + 1 ]_vars

\* C7's case: the 4x4 region with four squares has been counted after a
\* search, following a query that was not counted.
FixedSmallCasesWitness ==
  /\ entry = "part_1"
  /\ pc = "next"
  /\ shapes = (0 :> Square)
  /\ query = FourSquaresIn4x4
  /\ can_fit = Unknown
  /\ outcomes = <<FALSE, TRUE>>
  /\ count = 1

\* C9: when every marking call was made with can_place true and has been
\* undone once by an unmarking call with its shape and offset, the grid is
\* the grid before the calls, cell for cell.
PlaceRoundTrip ==
  (entry = "place" /\ placed = <<>>) =>
    \A p \in DOMAIN before : grid[p] = before[p]

\* C9's case: on a grid with an occupied cell, the unmarking call of an L
\* tromino has undone the last placement outstanding.
PlaceRoundTripWitness ==
  /\ entry = "place"
  /\ placed = <<>>
  /\ last_call.fn = "place"
  /\ ~last_call.mark
  /\ Cardinality(last_call.cells) = 3
  /\ \E p \in DOMAIN before : before[p]

\* C10: can_place answers true exactly when every shape cell (row + r,
\* col + c) has 0 <= row + r < height and 0 <= col + c < width and is not
\* occupied, and it leaves the grid as it was.
CanPlaceContract ==
  (entry = "can_place" /\ pc = "returned") =>
    /\ ret <=> \A p \in last_call.cells :
                 /\ 0 <= last_call.row + p[1]
                 /\ last_call.row + p[1] < query.height
                 /\ 0 <= last_call.col + p[2]
                 /\ last_call.col + p[2] < query.width
                 /\ ~before[<<last_call.row + p[1], last_call.col + p[2]>>]
    /\ grid = before

\* C10's case: can_place has answered true for a three-cell shape on a grid
\* with an occupied cell.
CanPlaceContractWitness ==
  /\ entry = "can_place"
  /\ pc = "returned"
  /\ ret
  /\ Cardinality(last_call.cells) = 3
  /\ \E p \in DOMAIN grid : grid[p]

\* The S tetromino and the L tetromino.
STetromino == {<<0, 1>>, <<0, 2>>, <<1, 0>>, <<1, 1>>}
LTetromino == {<<0, 0>>, <<1, 0>>, <<2, 0>>, <<2, 1>>}

\* No symmetry of the square but the identity maps the shape to a translate
\* of itself.
Asymmetric(cells) ==
  \A k \in 1 .. 7 :
    Anchored({SymmetryImage(k, p) : p \in cells}) # Anchored(cells)

\* A shape function called on its own has returned from its first call.
ShapeReturned(fn) ==
  entry = "shapes" /\ pc = "returned" /\ last_call.fn = fn

\* C11: for a non-empty shape S and a translation (dr, dc), normalizing S
\* moved by (dr, dc) gives the set that normalizing S gives, and that set has
\* least row 0 and least column 0; so it is for normalize and for the
\* normalizer of extract_shape_from_lines, whose lines can draw S moved down
\* and right only.
TranslationInvariance ==
  /\ (ShapeReturned("normalize") /\ shapes[0] # {}) =>
       /\ result[1] = normalize(shapes[0])
       /\ Min({p[1] : p \in result[1]}) = 0
       /\ Min({p[2] : p \in result[1]}) = 0
  /\ (ShapeReturned("extract_shape_from_lines") /\ shapes[0] # {}) =>
       /\ result[1] = extract_shape_from_lines(Lines(shapes[0]))
       /\ Min({p[1] : p \in result[1]}) = 0
       /\ Min({p[2] : p \in result[1]}) = 0

\* C11's case: normalize has returned for a three-cell shape that does not
\* touch row 0 of its box, moved up and right.
TranslationInvarianceWitness ==
  /\ ShapeReturned("normalize")
  /\ Cardinality(shapes[0]) = 3
  /\ \A p \in shapes[0] : p[1] > 0
  /\ last_call.row = -1
  /\ last_call.col = 1

\* C12: normalize called on what normalize returned returns the same set,
\* and normalize returns the empty set for the empty set.
NormalizeIdempotent ==
  /\ (entry = "shapes" /\ pc = "returned again") => result[2] = result[1]
  /\ (ShapeReturned("normalize") /\ last_call.cells = {}) => result[1] = {}

\* C12's case: normalize has returned twice for a four-cell shape that was
\* not in normal form.
NormalizeIdempotentWitness ==
  /\ entry = "shapes"
  /\ pc = "returned again"
  /\ Cardinality(last_call.cells) = 4
  /\ last_call.cells # result[1]

\* C13: for a non-empty shape, the list get_all_orientations returns has no
\* two equal elements, its elements are exactly the images of the shape
\* under the eight symmetries of the square moved to least row 0 and least
\* column 0, it has from 1 to 8 elements, and each has as many cells as the
\* shape.
OrientationsAreTheOrbit ==
  (ShapeReturned("get_all_orientations") /\ shapes[0] # {}) =>
    LET list == result[1]
    IN  /\ \A i, j \in 1 .. Len(list) : i # j => list[i] # list[j]
        /\ {list[i] : i \in 1 .. Len(list)} = OrientationsOf(shapes[0])
        /\ 1 <= Len(list) /\ Len(list) <= 8
        /\ \A i \in 1 .. Len(list) :
             Cardinality(list[i]) = Cardinality(shapes[0])

\* C13's case: get_all_orientations has returned four orientations for a
\* four-cell shape that was moved, so that some of the eight images fell
\* together.
OrientationsAreTheOrbitWitness ==
  /\ ShapeReturned("get_all_orientations")
  /\ Cardinality(shapes[0]) = 4
  /\ Len(result[1]) = 4
  /\ last_call.row = 1
  /\ last_call.col = -1

\* C14: get_all_orientations returns 1 orientation for the 2x2 square, 1 for
\* a single cell, 4 for the L tromino, 4 for the S or Z tetromino, and 8 for
\* a shape without symmetry, the L tetromino among them.
OrientationCounts ==
  (ShapeReturned("get_all_orientations") /\ shapes[0] # {}) =>
    LET n == Len(result[1])
        shape == Anchored(shapes[0])
    IN  /\ shape = Square => n = 1
        /\ shape = Monomino => n = 1
        /\ shape \in OrientationsOf(LTromino) => n = 4
        /\ shape \in OrientationsOf(STetromino) => n = 4
        /\ shape \in OrientationsOf(LTetromino) => n = 8
        /\ Asymmetric(shape) => n = 8

\* C14's case: get_all_orientations has returned eight orientations for the
\* L tetromino.
OrientationCountsWitness ==
  /\ ShapeReturned("get_all_orientations")
  /\ shapes[0] = LTetromino
  /\ Len(result[1]) = 8

\* Control is inside solve_region_backtrack.
InSearch == pc \in {"call", "loop", "return"}

\* The number of true elements of a sequence of booleans.
CountTrue(seq) == Cardinality({i \in 1 .. Len(seq) : seq[i]})

\* C15: over a run of part_1, get_all_orientations is called at most once
\* for each shape identifier, and not at all while no query has had the
\* estimator's answer None; the table, once built, is the one every search
\* is given.
OrientationsGeneratedOnce ==
  /\ [](entry = "part_1" =>
          \A shape_id \in DOMAIN shapes :
            /\ generated[shape_id] <= 1
            /\ generated[shape_id] = 0 <=> all_orientations = None
            /\ (\A i \in 1 .. Len(estimates) : estimates[i] # Unknown) =>
                 generated[shape_id] = 0)
  /\ [][(entry = "part_1" /\ all_orientations # None) =>
          all_orientations' = all_orientations]_vars

\* C15's case: the second query of a run is being searched, after a first
\* query that was searched too, and the orientations were generated once.
OrientationsGeneratedOnceWitness ==
  /\ entry = "part_1"
  /\ InSearch
  /\ estimates = <<Unknown, Unknown>>
  /\ Len(placed) = 2
  /\ \A shape_id \in DOMAIN shapes : generated[shape_id] = 1

\* C16: in part_1 every query gets the estimator's answer first; the search
\* is entered only from there and on the answer None, and on that answer it
\* is entered; on the answers True and False no grid and no memo table are
\* made.
TwoTierOrdering ==
  /\ [](entry = "part_1" =>
          /\ InSearch => (Len(estimates) = qi /\ estimates[qi] = Unknown
                          /\ can_fit = Unknown)
          /\ (grid # NoGrid \/ memo # NoMemo) => InSearch)
  /\ [][entry = "part_1" =>
          /\ (pc = "next" /\ pc' # "done") =>
               /\ pc' = "estimated"
               /\ can_fit' = can_fit_by_area(query'.width, query'.height,
                                             query'.counts, shape_sizes)
               /\ estimates' = Append(estimates, can_fit')
          /\ (pc = "estimated" /\ can_fit = Unknown) =>
               /\ pc' = "call"
               /\ grid' = EmptyGrid(query.width, query.height)
               /\ memo' = NoMemo
          /\ (pc = "estimated" /\ can_fit # Unknown) =>
               /\ pc' = "next"
               /\ grid' = NoGrid
               /\ memo' = NoMemo
          /\ (InSearch' /\ ~InSearch) => (pc = "estimated" /\ can_fit = Unknown)
     ]_vars

\* C16's case: a run has finished a query that was searched and then a query
\* the estimator answered True for.
TwoTierOrderingWitness ==
  /\ entry = "part_1"
  /\ pc = "next"
  /\ estimates = <<Unknown, Fits>>
  /\ grid = NoGrid
  /\ memo = NoMemo

\* C17: what part_1 returns is the number of queries finished with outcome
\* true; the outcome is true on the estimator's answer True, false on its
\* answer False, and what the search returned on None; so the count is from
\* 0 to the number of queries.
AggregateResult ==
  (entry = "part_1" /\ pc \in {"next", "done"}) =>
    /\ Len(outcomes) = qi
    /\ Len(estimates) = qi
    /\ count = CountTrue(outcomes)
    /\ 0 <= count /\ count <= qi
    /\ \A i \in 1 .. qi :
         /\ estimates[i] = Fits => outcomes[i]
         /\ estimates[i] = DoesNotFit => ~outcomes[i]
    /\ (qi > 0 /\ estimates[qi] = Unknown) => outcomes[qi] = ret

\* C17's case: part_1 has returned 1 for two queries that were both searched,
\* the first with the answer true and the second with the answer false.
AggregateResultWitness ==
  /\ entry = "part_1"
  /\ pc = "done"
  /\ estimates = <<Unknown, Unknown>>
  /\ outcomes = <<TRUE, FALSE>>
  /\ count = 1

\* The occupied cells of a grid.
Occupied(g) == {p \in DOMAIN g : g[p]}

\* The grid with which the call of backtrack that has just returned was
\* entered: the empty grid for backtrack(0), and for a call made inside the
\* loops the grid of the calling frame's entry with its current placement.
EntryGridOfReturned ==
  IF stack = <<>> THEN [p \in DOMAIN grid |-> FALSE]
  ELSE [p \in DOMAIN grid |->
          Top.state[1][p] \/ p \in Translate(Top.orientation, Top.row, Top.col)]

\* C18: when a call of backtrack has returned false, the grid is the grid
\* the call was entered with; inside the loops, between one placement tried
\* and the next, the grid is the grid of the frame's entry: each placement
\* of a failed branch has been undone, and the placements left are those of
\* the calls still open.
GridRestoredOnFailure ==
  InSearch =>
    /\ pc = "loop" =>
         (grid = Top.state[1] /\ Len(placed) = Len(stack) - 1)
    /\ (pc = "return" /\ ~ret) =>
         (grid = EntryGridOfReturned /\ Len(placed) = Len(stack))
    /\ Occupied(grid) = UNION {CellsOf(placed[i]) : i \in 1 .. Len(placed)}

\* C18's case: backtrack(0) has returned false with the grid empty again,
\* after calls three deep were explored.
GridRestoredOnFailureWitness ==
  /\ SearchAnswered
  /\ ~ret
  /\ Occupied(grid) = {}
  /\ \E state \in DOMAIN visits :
       state[2] = 2 /\ visits[state].explored = 1

\* C19: within one search, backtrack goes past its memo lookup at most once
\* for each <<grid, idx>>; entered again with such a pair, it returns the
\* boolean recorded, with no placement tried.
ExploredAtMostOnce ==
  /\ [](InSearch => \A state \in DOMAIN visits : visits[state].explored <= 1)
  /\ [][(pc = "call" /\ idx # Len(presents) /\ <<grid, idx>> \in DOMAIN visits) =>
          /\ <<grid, idx>> \in DOMAIN memo
          /\ pc' = "return"
          /\ ret' = memo[<<grid, idx>>]
          /\ visits'[<<grid, idx>>].explored = visits[<<grid, idx>>].explored
          /\ UNCHANGED <<grid, memo, stack, placed>>]_vars

\* C19's case: backtrack has been entered again with a pair it had explored,
\* and the memo lookup has answered.
ExploredAtMostOnceWitness ==
  /\ pc = "return"
  /\ <<grid, idx>> \in DOMAIN visits
  /\ visits[<<grid, idx>>].explored = 1
  /\ visits[<<grid, idx>>].recalled = 1
  /\ ret = memo[<<grid, idx>>]

\* C20: when backtrack is entered with idx short of the number of presents
\* and a pair not in the memo, and the presents left are more than the empty
\* cells, it records false for the pair and returns false, the grid and the
\* placements as they were, and no packing of the presents left into the
\* empty cells exists; when they are not more, it goes into the loops.
AreaPruning ==
  [][(pc = "call" /\ idx # Len(presents) /\ <<grid, idx>> \notin DOMAIN memo) =>
      IF Len(presents) - idx > Cardinality(DOMAIN grid \ Occupied(grid))
      THEN /\ pc' = "return"
           /\ ret' = FALSE
           /\ memo' = (<<grid, idx>> :> FALSE) @@ memo
           /\ UNCHANGED <<grid, stack, placed>>
           /\ ~PackingFrom(Occupied(grid), idx + 1, presents, query)
      ELSE pc' = "loop"]_vars

\* C20's case: below a placement, backtrack has returned false for a pair
\* with more presents left than empty cells, and the pair is recorded.
AreaPruningWitness ==
  /\ pc = "return"
  /\ ~ret
  /\ stack # <<>>
  /\ Len(presents) - idx > Cardinality(DOMAIN grid \ Occupied(grid))
  /\ <<grid, idx>> \in DOMAIN memo
  /\ ~memo[<<grid, idx>>]
  /\ visits[<<grid, idx>>] = [explored |-> 1, recalled |-> 0]

\* C21: on a grid with no occupied cell get_adjacent_positions returns the
\* set of the one cell (0, 0), the first empty cell in row-major order; on a
\* grid with an occupied cell it returns exactly the empty cells of the grid
\* one step up, down, left or right of an occupied cell.
CandidateCells ==
  (entry = "get_adjacent_positions" /\ pc = "returned") =>
    IF Occupied(grid) = {} THEN result[1] = {<<0, 0>>}
    ELSE result[1] =
           {p \in GridCells(query.width, query.height) :
              /\ ~grid[p]
              /\ \E q \in Occupied(grid) :
                   \/ (p[1] = q[1] /\ (p[2] - q[2]) \in {-1, 1})
                   \/ (p[2] = q[2] /\ (p[1] - q[1]) \in {-1, 1})}

\* C21's case: get_adjacent_positions has returned two cells on a grid that
\* holds occupied cells and an empty cell with no occupied neighbour.
CandidateCellsWitness ==
  /\ entry = "get_adjacent_positions"
  /\ pc = "returned"
  /\ Cardinality(Occupied(grid)) = 2
  /\ Cardinality(result[1]) = 2
  /\ \E p \in DOMAIN grid : ~grid[p] /\ p \notin result[1]

\* C22: every call of solve_region_backtrack returns; along the chain of
\* open calls of backtrack idx goes up by one from 0, so that the chain,
\* the call being entered included, is never longer than the number of
\* presents plus one.
Termination ==
  /\ [](InSearch =>
          /\ \A i \in 1 .. Len(stack) : stack[i].idx = i - 1
          /\ pc = "call" => idx = Len(stack)
          /\ Len(stack) + 1 <= Len(presents) + 1
          /\ idx <= Len(presents))
  /\ (InSearch ~> SearchAnswered)

\* C22's case: the chain of open calls is as long as it gets, for three
\* presents, in a call that follows a failure.
TerminationWitness ==
  /\ entry = "solve_region_backtrack"
  /\ pc = "call"
  /\ Len(presents) = 3
  /\ idx = 3
  /\ Len(stack) = 3
  /\ \E k \in DOMAIN memo : ~memo[k]

\* Every shape the query requires lies inside a 3x3 box.
RequiredShapesWithin3x3 ==
  \A shape_id \in DOMAIN query.counts :
    query.counts[shape_id] > 0 =>
      \E o \in OrientationsOf(shapes[shape_id]) :
        \A p \in o : p[1] <= 2 /\ p[2] <= 2

\* C23: for a query whose required shapes all lie inside a 3x3 box, when the
\* number of required items is at most floor(width / 3) * floor(height / 3)
\* the shapes can all be packed into the region; and can_fit_by_area answers
\* True for such a query only on that condition, so only when they can.
BlockBoundSufficient ==
  LET items == SumOver(query.counts, DOMAIN query.counts)
      blocks == (query.width \div 3) * (query.height \div 3)
  IN  (pc = "estimated" /\ RequiredShapesWithin3x3) =>
        /\ items <= blocks => Packable(query)
        /\ can_fit = Fits => (items <= blocks /\ Packable(query))

\* C23's case: can_fit_by_area has answered True for four items, 3x3 blocks
\* among them, in a region of four 3x3 blocks.
BlockBoundSufficientWitness ==
  /\ pc = "estimated"
  /\ can_fit = Fits
  /\ RequiredShapesWithin3x3
  /\ shapes[1] = Block
  /\ shapes[0] = Plus
  /\ query = [width |-> 6, height |-> 6, counts |-> (0 :> 2 @@ 1 :> 2)]

\* C24: in solve_region_backtrack every placement made after the first, while
\* it is on the grid, has a cell one step up, down, left or right of a cell
\* of a placement made before it.
AdjacentOnlyPlacement ==
  InSearch =>
    \A i \in 2 .. Len(placed) :
      \E p \in CellsOf(placed[i]) :
        \E j \in 1 .. i - 1 :
          \E q \in CellsOf(placed[j]) :
            \/ (p[1] = q[1] /\ (p[2] - q[2]) \in {-1, 1})
            \/ (p[2] = q[2] /\ (p[1] - q[1]) \in {-1, 1})

\* C25: the calls of solve_region_backtrack on the same region, shapes and
\* counts, each taking the orientations and the candidate cells in an order
\* of its own, return the same boolean.
OrderIndependence ==
  entry = "solve_region_backtrack" =>
    /\ \A i, j \in 1 .. Len(outcomes) : outcomes[i] = outcomes[j]
    /\ (SearchAnswered /\ outcomes # <<>>) => ret = outcomes[1]

\* C25's case: a second call on the same arguments has answered true as the
\* first did, with a failure recorded in its memo on the way.
OrderIndependenceWitness ==
  /\ entry = "solve_region_backtrack"
  /\ SearchAnswered
  /\ outcomes = <<TRUE>>
  /\ ret
  /\ \E k \in DOMAIN memo : ~memo[k]

====
